---- MODULE Spec2Model ----
(***************************************************************************)
(* Model of the Remotion CLI renderer, renderer/render-cli.js: one run of  *)
(* main() from the command line to process.exit, with the collaborators    *)
(* (validateTsxFile, extractCompositionConfig, ensureBrowser,              *)
(* createTempProject, bundle, selectComposition, renderMedia) as the       *)
(* environment that settles each call and delivers progress callbacks.     *)
(*                                                                         *)
(* Numbers with a fractional part (durationInSeconds, progress fractions)  *)
(* are rationals <<num, den>>; file paths are records; an error message is *)
(* a sequence of words, and String.includes is membership of a word.       *)
(***************************************************************************)
EXTENDS Integers, Sequences, FiniteSets, TLC

VARIABLES
    pc,              \* position of main(): the phase it is in
    args,            \* result of parseArgs()
    inputPath,       \* absoluteInputPath
    outputPath,      \* outputPath
    config,          \* let config
    tempProjectDir,  \* let tempProjectDir
    dirs,            \* staging directories that exist on disk
    pending,         \* the collaborator call main() is suspended on
    calls,           \* collaborator calls started, in order
    settled,         \* collaborator calls settled, in order, with outcome
    bundleLocation,  \* const bundleLocation
    composition,     \* const composition
    bundleCall,      \* the argument bundle() was called with
    renderCall,      \* the argument renderMedia() was called with
    passed,          \* file paths handed to collaborators, with the callee
    out,             \* lines written to the console
    reported,        \* progress() calls, in order
    display,         \* the progress line currently displayed
    exitCode         \* <<>> while running, <<code>> after process.exit(code)

vars == <<pc, args, inputPath, outputPath, config, tempProjectDir, dirs,
          pending, calls, settled, bundleLocation, composition, bundleCall,
          renderCall, passed, out, reported, display, exitCode>>

----------------------------------------------------------------------------
(* Bounds *)

MaxArgs == 2        \* command-line arguments
MaxReports == 2     \* progress callbacks delivered in one run

----------------------------------------------------------------------------
(* Values *)

Path(abs, name, ext) == [abs |-> abs, name |-> name, ext |-> ext]

Undefined == Path(FALSE, <<>>, "")

InputNames == {Path(FALSE, <<"demo">>, "tsx"),
               Path(FALSE, <<"demo">>, "ts"),
               Path(FALSE, <<"gone">>, "tsx")}

OutputNames == {Path(FALSE, <<"out">>, "mp4")}

\* files present on disk
ExistingFiles == {<<"demo">>}

Timestamps == {"2026-01-01T00-00-00"}

Token(t, key, value) == [t |-> t, key |-> key, value |-> value]

ArgTokens ==
    {Token("opt", "input", p) : p \in InputNames}
      \cup {Token("opt", "output", p) : p \in OutputNames}
      \cup {Token("flag", "verbose", Undefined)}
      \cup {Token("pos", "", Path(FALSE, <<"demo">>, "tsx"))}

ArgVectors == UNION {[1..n -> ArgTokens] : n \in 0..MaxArgs}

NoConfig == [id |-> "", durationInSeconds |-> <<0, 1>>, fps |-> 0,
             width |-> 0, height |-> 0]

\* descriptors the extractor can return
Configs == {[id |-> "X", durationInSeconds |-> df[1], fps |-> df[2],
             width |-> 1080, height |-> 1920] :
               df \in {<<<<1, 4>>, 1>>, <<<<1, 4>>, 30>>, <<<<5, 1>>, 30>>}}

ConfigFields == {"id", "durationInSeconds", "fps", "width", "height"}

\* messages of the errors collaborators reject with: Error objects, whose
\* message is a string, so the catch block itself never throws
Messages == {<<"boom">>,
             <<"compositionConfig">>,
             <<"Module not found", "Can't resolve 'foo-bar'">>,
             <<"ENOENT">>,
             <<"Module not found", "Can't resolve 'foo-bar'", "compositionConfig">>,
             <<"ENOENT", "Module not found">>,
             <<"ENOENT", "compositionConfig">>}

\* messages of the extractor's errors: they name the offending field
ExtractionMessages == {<<"missing field", f>> : f \in ConfigFields}

NoComposition == [id |-> "", durationInFrames |-> 0, fps |-> 0, width |-> 0,
                  height |-> 0, defaultProps |-> ""]

\* handles selectComposition can resolve to: what the bundle registered
Compositions == {[id |-> "X", durationInFrames |-> 900, fps |-> 60,
                  width |-> 640, height |-> 480, defaultProps |-> "props"]}

BundleLocations == {"bundle-1"}

StagingDirs == {"remotion-tmp-1"}

\* fractions a collaborator can hand to a progress callback
ProgressValues == {<<1, 2>>, <<3, 2>>}

\* fractions ensureBrowser can hand to the download callback
DownloadValues == {<<51, 200>>}

NoDisplay == [label |-> "", pct |-> 0]

Line(ch, msg) == [ch |-> ch, msg |-> msg]

----------------------------------------------------------------------------
(* Pure functions of render-cli.js *)

NoArgs == [input |-> Undefined, output |-> Undefined, verbose |-> FALSE,
           positional |-> <<>>]

\* the body of the forEach in parseArgs: one argument folded into args
ApplyArg(a, tok) ==
    IF tok.t = "opt"
    THEN IF tok.key = "input" THEN [a EXCEPT !.input = tok.value]
         ELSE IF tok.key = "output" THEN [a EXCEPT !.output = tok.value]
         ELSE a
    ELSE IF tok.t = "flag"
    THEN IF tok.key = "verbose" THEN [a EXCEPT !.verbose = TRUE] ELSE a
    ELSE [a EXCEPT !.positional = Append(@, tok.value)]

RECURSIVE ParseFrom(_, _, _)
ParseFrom(a, v, i) ==
    IF i > Len(v) THEN a ELSE ParseFrom(ApplyArg(a, v[i]), v, i + 1)

ParseArgs(v) == ParseFrom(NoArgs, v, 1)

\* args.input || (args._positional && args._positional[0])
InputOf(a) ==
    IF a.input # Undefined THEN a.input
    ELSE IF a.positional # <<>> THEN a.positional[1]
    ELSE Undefined

\* path.resolve
Resolve(p) == [p EXCEPT !.abs = TRUE]

\* path.basename(inputPath, '.tsx')
BaseName(p) == IF p.ext = "tsx" THEN p.name ELSE Append(p.name, p.ext)

GenerateOutputPath(p, now) == Path(p.abs, BaseName(p) \o <<"_", now>>, "mp4")

\* Math.round of the rational num/den, den > 0: halves round up
MathRound(num, den) == (2 * num + den) \div (2 * den)

\* Math.round(config.durationInSeconds * config.fps)
DurationInFrames(cfg) ==
    MathRound(cfg.durationInSeconds[1] * cfg.fps, cfg.durationInSeconds[2])

\* Math.round(percent * 100)
Percent(p) == MathRound(p[1] * 100, p[2])

\* mutant of RenderComposition: the selected handle is passed on as it is
RenderCompositionNoOverride(comp, cfg) == comp

\* the composition object literal handed to renderMedia
RenderComposition(comp, cfg) ==
    [comp EXCEPT !.durationInFrames = DurationInFrames(cfg),
                 !.fps = cfg.fps,
                 !.width = cfg.width,
                 !.height = cfg.height]

\* the argument of renderMedia
RenderOptions(comp, cfg, loc, outp) ==
    [composition |-> RenderComposition(comp, cfg),
     serveUrl |-> loc,
     codec |-> "h264",
     outputLocation |-> outp]

\* the argument of bundle
BundleOptions(dir) ==
    [entryPoint |-> <<dir, "src", "index.ts">>,
     resolveModules |-> <<"renderer/node_modules", "node_modules">>]

\* err.message.includes(w)
Includes(msg, w) == \E i \in 1..Len(msg) : msg[i] = w

\* the module a word of the form Can't resolve '...' names, "" for other words
ResolvedModule(w) == IF w = "Can't resolve 'foo-bar'" THEN "foo-bar" ELSE ""

\* err.message.match(/Can't resolve '([^']+)'/): the first match, <<>> if none
ModuleMatch(msg) ==
    LET hits == {i \in 1..Len(msg) : ResolvedModule(msg[i]) # ""}
    IN  IF hits = {} THEN <<>>
        ELSE <<ResolvedModule(msg[CHOOSE i \in hits : \A j \in hits : i <= j])>>

SupportedLibraries ==
    <<Line("log", <<"">>), Line("log", <<"  Supported libraries:">>)>>

\* mutant of Hints: the three tests are independent ifs, so every hint whose
\* text the message contains is printed
HintsAllMatching(msg) ==
    (IF Includes(msg, "compositionConfig")
     THEN <<Line("hint", <<"config">>)>> ELSE <<>>)
    \o (IF Includes(msg, "Module not found")
        THEN (IF ModuleMatch(msg) # <<>>
              THEN <<Line("hint", <<"module">> \o ModuleMatch(msg))>>
              ELSE <<Line("hint", <<"dependency">>)>>) \o SupportedLibraries
        ELSE <<>>)
    \o (IF Includes(msg, "ENOENT")
        THEN <<Line("hint", <<"missing file">>)>> ELSE <<>>)

\* the hint lines of the catch block
Hints(msg) ==
    IF Includes(msg, "compositionConfig")
    THEN <<Line("hint", <<"config">>)>>
    ELSE IF Includes(msg, "Module not found")
    THEN (IF ModuleMatch(msg) # <<>>
          THEN <<Line("hint", <<"module">> \o ModuleMatch(msg))>>
          ELSE <<Line("hint", <<"dependency">>)>>) \o SupportedLibraries
    ELSE IF Includes(msg, "ENOENT")
    THEN <<Line("hint", <<"missing file">>)>>
    ELSE <<>>

\* mutant of StackTrace: the test of args.verbose is missing
StackTraceAlways(a, msg) ==
    <<Line("log", <<"">>), Line("log", <<"  Stack trace:">>),
      Line("stack", msg)>>

\* the stack trace lines of the catch block
StackTrace(a, msg) ==
    IF a.verbose
    THEN <<Line("log", <<"">>), Line("log", <<"  Stack trace:">>),
           Line("stack", msg)>>
    ELSE <<>>

\* validateTsxFile: <<>> when the file is accepted, else the error's message
ValidateTsxFile(p) ==
    IF p.name \notin ExistingFiles THEN <<"File not found">>
    ELSE IF p.ext # "tsx" THEN <<"File must be a .tsx file">>
    ELSE <<>>

----------------------------------------------------------------------------
(* Exit codes *)

ExitUsage == 1
ExitValidation == 1
ExitExtraction == 1
ExitSuccess == 0

\* mutant of ExitFailure: the catch block exits with the success status
ExitFailureAsSuccess == ExitSuccess

ExitFailure == 1

----------------------------------------------------------------------------
(* Building blocks of the actions *)

\* process.exit(code): the process ends there; no later statement of main(),
\* its finally block included, runs
ProcessExit(code) ==
    /\ pc' = "exited"
    /\ exitCode' = <<code>>
    /\ pending' = "none"

\* a collaborator call starts
Call(fn) == calls' = Append(calls, fn)

\* the paths handed to collaborator fn in one call
HandedTo(fn, paths) == {[fn |-> fn, path |-> p] : p \in paths}

\* mutant of StagingArguments: the output path is handed to the stager too
StagingArgumentsWithOutput(inp, outp) == {inp, outp}

\* the paths in createTempProject(absoluteInputPath, config)
StagingArguments(inp, outp) == {inp}

\* the entry point handed to bundle
EntryPoint(dir) == Path(TRUE, <<dir, "src", "index">>, "ts")

\* a collaborator call settles: it returns (msg is <<>>) or throws an error
\* whose message is msg
Settle(fn, ok, msg) ==
    settled' = Append(settled, [fn |-> fn, ok |-> ok, msg |-> msg])

\* mutant of Progress: the displayed value only ever grows
ProgressKeepsMax(label, p) ==
    /\ reported' = Append(reported, [label |-> label, pct |-> Percent(p), at |-> pc])
    /\ display' = IF display.pct > Percent(p)
                  THEN display
                  ELSE [label |-> label, pct |-> Percent(p)]

\* progress(`${label}: ${Math.round(fraction * 100)}%`)
Progress(label, p) ==
    /\ reported' = Append(reported, [label |-> label, pct |-> Percent(p), at |-> pc])
    /\ display' = [label |-> label, pct |-> Percent(p)]

\* mutant of Catch: when a hint matches it is printed in place of the
\* error's message
CatchReplacesMessage(msg) ==
    /\ display' = NoDisplay
    /\ out' = out \o (IF Hints(msg) = <<>>
                      THEN <<Line("error", <<"Render failed: ">> \o msg)>>
                      ELSE Hints(msg))
                  \o StackTrace(args, msg)
    /\ ProcessExit(ExitFailure)

\* the catch block of main(), entered with an error whose message is msg
Catch(msg) ==
    /\ display' = NoDisplay
    /\ out' = out \o <<Line("error", <<"Render failed: ">> \o msg)>>
                  \o Hints(msg) \o StackTrace(args, msg)
    /\ ProcessExit(ExitFailure)

\* main() is suspended in an await, so the event loop can run a callback
Suspended == pc # "exited" /\ pending # "none"

----------------------------------------------------------------------------
(* State machine *)

Init ==
    /\ pc = "start"
    /\ args = NoArgs
    /\ inputPath = Undefined
    /\ outputPath = Undefined
    /\ config = NoConfig
    /\ tempProjectDir = "null"
    /\ dirs = {}
    /\ pending = "none"
    /\ calls = <<>>
    /\ settled = <<>>
    /\ bundleLocation = ""
    /\ composition = NoComposition
    /\ bundleCall = {}
    /\ renderCall = {}
    /\ passed = {}
    /\ out = <<>>
    /\ reported = <<>>
    /\ display = NoDisplay
    /\ exitCode = <<>>

\* mutant of Start: the check that an input file was named is missing
StartNoCheck(argv) ==
    /\ pc = "start"
    /\ args' = ParseArgs(argv)
    /\ out' = Append(out, Line("banner", <<"Remotion Video Renderer">>))
    /\ inputPath' = Resolve(InputOf(args'))
    /\ pc' = "validating"
    /\ UNCHANGED <<exitCode, pending>>
    /\ UNCHANGED <<passed, outputPath, config, tempProjectDir, dirs, calls,
                   settled, bundleLocation, composition, bundleCall,
                   renderCall, reported, display>>

\* banner, parseArgs, the check that an input file was named, path.resolve
Start(argv) ==
    /\ pc = "start"
    /\ args' = ParseArgs(argv)
    /\ IF InputOf(args') = Undefined
       THEN /\ out' = out \o <<Line("banner", <<"Remotion Video Renderer">>),
                              Line("error", <<"No input file specified">>),
                              Line("log", <<"  Usage:">>)>>
            /\ ProcessExit(ExitUsage)
            /\ UNCHANGED inputPath
       ELSE /\ out' = Append(out, Line("banner", <<"Remotion Video Renderer">>))
            /\ inputPath' = Resolve(InputOf(args'))
            /\ pc' = "validating"
            /\ UNCHANGED <<exitCode, pending>>
    /\ UNCHANGED <<passed, outputPath, config, tempProjectDir, dirs, calls,
                   settled, bundleLocation, composition, bundleCall,
                   renderCall, reported, display>>

\* mutant of Validate: the catch block reports the error and does not exit
ValidateNoExit ==
    /\ pc = "validating"
    /\ Call("validateTsxFile")
    /\ Settle("validateTsxFile", ValidateTsxFile(inputPath) = <<>>,
              ValidateTsxFile(inputPath))
    /\ \E now \in Timestamps :
         outputPath' = IF args.output # Undefined
                       THEN Resolve(args.output)
                       ELSE GenerateOutputPath(inputPath, now)
    /\ out' = out \o (IF ValidateTsxFile(inputPath) # <<>>
                      THEN <<Line("error", ValidateTsxFile(inputPath))>>
                      ELSE <<>>)
                  \o <<Line("log", <<"Input">>), Line("log", <<"Output">>)>>
    /\ pc' = "extracting"
    /\ UNCHANGED <<exitCode, pending>>
    /\ passed' = passed \cup HandedTo("validateTsxFile", {inputPath})
    /\ UNCHANGED <<args, inputPath, config, tempProjectDir, dirs,
                   bundleLocation, composition, bundleCall, renderCall,
                   reported, display>>

\* validateTsxFile in its try/catch, then the output path
Validate ==
    /\ pc = "validating"
    /\ Call("validateTsxFile")
    /\ IF ValidateTsxFile(inputPath) # <<>>
       THEN /\ Settle("validateTsxFile", FALSE, ValidateTsxFile(inputPath))
            /\ out' = Append(out, Line("error", ValidateTsxFile(inputPath)))
            /\ ProcessExit(ExitValidation)
            /\ UNCHANGED outputPath
       ELSE /\ Settle("validateTsxFile", TRUE, <<>>)
            /\ \E now \in Timestamps :
                 outputPath' = IF args.output # Undefined
                               THEN Resolve(args.output)
                               ELSE GenerateOutputPath(inputPath, now)
            /\ out' = out \o <<Line("log", <<"Input">>), Line("log", <<"Output">>)>>
            /\ pc' = "extracting"
            /\ UNCHANGED <<exitCode, pending>>
    /\ passed' = passed \cup HandedTo("validateTsxFile", {inputPath})
    /\ UNCHANGED <<args, inputPath, config, tempProjectDir, dirs,
                   bundleLocation, composition, bundleCall, renderCall,
                   reported, display>>

\* extractCompositionConfig returns cfg; main() goes on to call ensureBrowser
ExtractOk(cfg) ==
    /\ pc = "extracting"
    /\ calls' = calls \o <<"extractCompositionConfig", "ensureBrowser">>
    /\ Settle("extractCompositionConfig", TRUE, <<>>)
    /\ config' = cfg
    /\ out' = out \o <<Line("log", <<"Extracting composition config...">>),
                       Line("log", <<"Composition ID", cfg.id>>),
                       Line("log", <<"Duration">>),
                       Line("log", <<"Resolution">>),
                       Line("log", <<"Checking browser...">>)>>
    /\ tempProjectDir' = "null"
    /\ pending' = "ensureBrowser"
    /\ pc' = "provisioning"
    /\ passed' = passed \cup HandedTo("extractCompositionConfig", {inputPath})
    /\ UNCHANGED <<args, inputPath, outputPath, dirs, bundleLocation,
                   composition, bundleCall, renderCall, reported, display,
                   exitCode>>

\* mutant of ExtractFail: the catch block reports the error and does not
\* exit, so main() goes on to call ensureBrowser with config undefined
ExtractFailContinues(msg) ==
    /\ pc = "extracting"
    /\ calls' = calls \o <<"extractCompositionConfig", "ensureBrowser">>
    /\ Settle("extractCompositionConfig", FALSE, msg)
    /\ out' = out \o <<Line("log", <<"Extracting composition config...">>),
                       Line("error", <<"Failed to extract composition config: ">> \o msg),
                       Line("hint", <<"export compositionConfig">>),
                       Line("log", <<"Checking browser...">>)>>
    /\ pending' = "ensureBrowser"
    /\ pc' = "provisioning"
    /\ passed' = passed \cup HandedTo("extractCompositionConfig", {inputPath})
    /\ UNCHANGED <<args, inputPath, outputPath, config, tempProjectDir, dirs,
                   bundleLocation, composition, bundleCall, renderCall,
                   reported, display, exitCode>>

\* extractCompositionConfig throws an error whose message is msg
ExtractFail(msg) ==
    /\ pc = "extracting"
    /\ Call("extractCompositionConfig")
    /\ Settle("extractCompositionConfig", FALSE, msg)
    /\ out' = out \o <<Line("log", <<"Extracting composition config...">>),
                       Line("error", <<"Failed to extract composition config: ">> \o msg),
                       Line("hint", <<"export compositionConfig">>)>>
    /\ ProcessExit(ExitExtraction)
    /\ passed' = passed \cup HandedTo("extractCompositionConfig", {inputPath})
    /\ UNCHANGED <<args, inputPath, outputPath, config, tempProjectDir,
                   dirs, bundleLocation, composition, bundleCall, renderCall,
                   reported, display>>

Extract ==
    \/ \E cfg \in Configs : ExtractOk(cfg)
    \/ \E msg \in ExtractionMessages : ExtractFail(msg)

\* onBrowserDownload's onProgress callback: the download reports its
\* progress while ensureBrowser is awaited
BrowserDownloadProgress(p) ==
    /\ pending = "ensureBrowser"
    /\ Len(reported) < MaxReports
    /\ Progress("Downloading browser", p)
    /\ UNCHANGED <<passed, pc, args, inputPath, outputPath, config,
                   tempProjectDir, dirs, pending, calls, settled,
                   bundleLocation, composition, bundleCall, renderCall, out,
                   exitCode>>

\* ensureBrowser resolves
EnsureBrowserOk ==
    /\ pending = "ensureBrowser"
    /\ Settle("ensureBrowser", TRUE, <<>>)
    /\ display' = NoDisplay
    /\ out' = Append(out, Line("success", <<"Browser ready">>))
    /\ pending' = "none"
    /\ pc' = "staging"
    /\ UNCHANGED <<passed, args, inputPath, outputPath, config, tempProjectDir,
                   dirs, calls, bundleLocation, composition, bundleCall,
                   renderCall, reported, exitCode>>

\* mutant of EnsureBrowserFail: the rejection is swallowed and main() goes on
EnsureBrowserFailIgnored(msg) ==
    /\ pending = "ensureBrowser"
    /\ Settle("ensureBrowser", FALSE, msg)
    /\ display' = NoDisplay
    /\ out' = Append(out, Line("success", <<"Browser ready">>))
    /\ pending' = "none"
    /\ pc' = "staging"
    /\ UNCHANGED <<passed, args, inputPath, outputPath, config, tempProjectDir,
                   dirs, calls, bundleLocation, composition, bundleCall,
                   renderCall, reported, exitCode>>

\* mutant of EnsureBrowserFail: ensureBrowser is awaited outside the try
\* block, so its rejection ends the process without the catch block
EnsureBrowserFailUntranslated(msg) ==
    /\ pending = "ensureBrowser"
    /\ Settle("ensureBrowser", FALSE, msg)
    /\ ProcessExit(ExitFailure)
    /\ UNCHANGED <<out, display>>
    /\ UNCHANGED <<passed, args, inputPath, outputPath, config, tempProjectDir,
                   dirs, calls, bundleLocation, composition, bundleCall,
                   renderCall, reported>>

\* ensureBrowser rejects
EnsureBrowserFail(msg) ==
    /\ pending = "ensureBrowser"
    /\ Settle("ensureBrowser", FALSE, msg)
    /\ Catch(msg)
    /\ UNCHANGED <<passed, args, inputPath, outputPath, config, tempProjectDir,
                   dirs, calls, bundleLocation, composition, bundleCall,
                   renderCall, reported>>

\* what createTempProject leaves on disk when it throws: nothing, or the
\* directory it had already made
PartialStaging(d, partial) == IF partial THEN {d} ELSE {}

\* createTempProject returns d; main() goes on to call bundle
StageOk(d) ==
    /\ pc = "staging"
    /\ pending = "none"
    /\ d \notin dirs
    /\ calls' = calls \o <<"createTempProject", "bundle">>
    /\ Settle("createTempProject", TRUE, <<>>)
    /\ dirs' = dirs \cup {d}
    /\ tempProjectDir' = d
    /\ out' = out \o <<Line("log", <<"Creating temporary project...">>),
                       Line("success", <<"Temporary project created">>),
                       Line("log", <<"Bundling project...">>)>>
    /\ bundleCall' = {BundleOptions(d)}
    /\ pending' = "bundle"
    /\ pc' = "bundling"
    /\ passed' = passed \cup HandedTo("createTempProject",
                                    StagingArguments(inputPath, outputPath))
                       \cup HandedTo("bundle", {EntryPoint(d)})
    /\ UNCHANGED <<args, inputPath, outputPath, config, bundleLocation,
                   composition, renderCall, reported, display, exitCode>>

\* createTempProject throws: tempProjectDir is not assigned
StageFail(d, partial, msg) ==
    /\ pc = "staging"
    /\ pending = "none"
    /\ d \notin dirs
    /\ Call("createTempProject")
    /\ Settle("createTempProject", FALSE, msg)
    /\ dirs' = dirs \cup PartialStaging(d, partial)
    /\ Catch(msg)
    /\ passed' = passed \cup HandedTo("createTempProject",
                                    StagingArguments(inputPath, outputPath))
    /\ UNCHANGED <<args, inputPath, outputPath, config, tempProjectDir,
                   bundleLocation, composition, bundleCall, renderCall,
                   reported>>

Stage ==
    \/ \E d \in StagingDirs : StageOk(d)
    \/ \E d \in StagingDirs, partial \in BOOLEAN, msg \in Messages :
         StageFail(d, partial, msg)

\* bundle's onProgress callback
BundleProgress(p) ==
    /\ Suspended
    /\ \E i \in 1..Len(calls) : calls[i] = "bundle"
    /\ Len(reported) < MaxReports
    /\ Progress("Bundling", p)
    /\ UNCHANGED <<passed, pc, args, inputPath, outputPath, config,
                   tempProjectDir, dirs, pending, calls, settled,
                   bundleLocation, composition, bundleCall, renderCall, out,
                   exitCode>>

\* mutant of BundleOk: main() renders the bundle without selecting the
\* composition first
BundleOkSkipsSelect(loc) ==
    /\ pending = "bundle"
    /\ Settle("bundle", TRUE, <<>>)
    /\ bundleLocation' = loc
    /\ display' = NoDisplay
    /\ out' = out \o <<Line("success", <<"Bundle complete">>),
                       Line("log", <<"Rendering video...">>)>>
    /\ Call("renderMedia")
    /\ renderCall' = {RenderOptions(composition, config, loc, outputPath)}
    /\ pending' = "renderMedia"
    /\ pc' = "rendering"
    /\ passed' = passed \cup HandedTo("renderMedia", {outputPath})
    /\ UNCHANGED <<args, inputPath, outputPath, config, tempProjectDir,
                   dirs, composition, bundleCall, reported, exitCode>>

\* bundle resolves with loc; main() goes on to call selectComposition
BundleOk(loc) ==
    /\ pending = "bundle"
    /\ Settle("bundle", TRUE, <<>>)
    /\ bundleLocation' = loc
    /\ display' = NoDisplay
    /\ out' = out \o <<Line("success", <<"Bundle complete">>),
                       Line("log", <<"Selecting composition...">>)>>
    /\ Call("selectComposition")
    /\ pending' = "selectComposition"
    /\ pc' = "selecting"
    /\ UNCHANGED <<passed, args, inputPath, outputPath, config, tempProjectDir,
                   dirs, composition, bundleCall, renderCall, reported,
                   exitCode>>

\* mutant of BundleFail: a rejected bundle is tried again
BundleFailRetries(msg) ==
    /\ pending = "bundle"
    /\ Settle("bundle", FALSE, msg)
    /\ Call("bundle")
    /\ display' = NoDisplay
    /\ out' = Append(out, Line("log", <<"Bundling project...">>))
    /\ UNCHANGED <<pc, pending, exitCode>>
    /\ UNCHANGED <<passed, args, inputPath, outputPath, config, tempProjectDir,
                   dirs, bundleLocation, composition, bundleCall,
                   renderCall, reported>>

\* bundle rejects
BundleFail(msg) ==
    /\ pending = "bundle"
    /\ Settle("bundle", FALSE, msg)
    /\ Catch(msg)
    /\ UNCHANGED <<passed, args, inputPath, outputPath, config, tempProjectDir,
                   dirs, calls, bundleLocation, composition, bundleCall,
                   renderCall, reported>>

\* selectComposition resolves with comp; main() goes on to call renderMedia
SelectOk(comp) ==
    /\ pending = "selectComposition"
    /\ comp.id = config.id
    /\ Settle("selectComposition", TRUE, <<>>)
    /\ composition' = comp
    /\ out' = out \o <<Line("success", <<"Selected", comp.id>>),
                       Line("log", <<"Rendering video...">>)>>
    /\ Call("renderMedia")
    /\ renderCall' = {RenderOptions(comp, config, bundleLocation, outputPath)}
    /\ pending' = "renderMedia"
    /\ pc' = "rendering"
    /\ passed' = passed \cup HandedTo("renderMedia", {outputPath})
    /\ UNCHANGED <<args, inputPath, outputPath, config, tempProjectDir,
                   dirs, bundleLocation, bundleCall, reported, display,
                   exitCode>>

\* mutant of SelectFail: the rejection is swallowed and nothing resumes
\* main()
SelectFailHangs(msg) ==
    /\ pending = "selectComposition"
    /\ Settle("selectComposition", FALSE, msg)
    /\ pending' = "none"
    /\ UNCHANGED <<pc, out, display, exitCode>>
    /\ UNCHANGED <<passed, args, inputPath, outputPath, config,
                   tempProjectDir, dirs, calls, bundleLocation, composition,
                   bundleCall, renderCall, reported>>

\* selectComposition rejects
SelectFail(msg) ==
    /\ pending = "selectComposition"
    /\ Settle("selectComposition", FALSE, msg)
    /\ Catch(msg)
    /\ UNCHANGED <<passed, args, inputPath, outputPath, config, tempProjectDir,
                   dirs, calls, bundleLocation, composition, bundleCall,
                   renderCall, reported>>

\* renderMedia's onProgress callback
RenderProgress(p) ==
    /\ Suspended
    /\ \E i \in 1..Len(calls) : calls[i] = "renderMedia"
    /\ Len(reported) < MaxReports
    /\ Progress("Rendering", p)
    /\ UNCHANGED <<passed, pc, args, inputPath, outputPath, config,
                   tempProjectDir, dirs, pending, calls, settled,
                   bundleLocation, composition, bundleCall, renderCall, out,
                   exitCode>>

\* renderMedia resolves
RenderOk ==
    /\ pending = "renderMedia"
    /\ Settle("renderMedia", TRUE, <<>>)
    /\ display' = NoDisplay
    /\ out' = out \o <<Line("success", <<"Render complete!">>),
                       Line("log", <<"  Output:">>)>>
    /\ ProcessExit(ExitSuccess)
    /\ UNCHANGED <<passed, args, inputPath, outputPath, config, tempProjectDir,
                   dirs, calls, bundleLocation, composition, bundleCall,
                   renderCall, reported>>

\* renderMedia rejects
RenderFail(msg) ==
    /\ pending = "renderMedia"
    /\ Settle("renderMedia", FALSE, msg)
    /\ Catch(msg)
    /\ UNCHANGED <<passed, args, inputPath, outputPath, config, tempProjectDir,
                   dirs, calls, bundleLocation, composition, bundleCall,
                   renderCall, reported>>

\* cleanupTempProject: the staging directory is deleted
CleanupTempProject(d) ==
    /\ Call("cleanupTempProject")
    /\ dirs' = dirs \ {d}

\* the finally block of main(). It runs when the try or the catch block
\* completes; both end in process.exit, after which pc is "exited", so no
\* step of Next leads here and Finally is not a disjunct of Next.
Finally ==
    /\ pc = "finally"
    /\ IF tempProjectDir # "null"
       THEN CleanupTempProject(tempProjectDir)
       ELSE UNCHANGED <<calls, dirs>>
    /\ pc' = "returned"
    /\ UNCHANGED <<passed, args, inputPath, outputPath, config, tempProjectDir,
                   pending, settled, bundleLocation, composition, bundleCall,
                   renderCall, out, reported, display, exitCode>>

Next ==
    \/ \E argv \in ArgVectors : Start(argv)
    \/ Validate
    \/ Extract
    \/ \E p \in DownloadValues : BrowserDownloadProgress(p)
    \/ EnsureBrowserOk
    \/ \E msg \in Messages : EnsureBrowserFail(msg)
    \/ Stage
    \/ \E p \in ProgressValues : BundleProgress(p)
    \/ \E loc \in BundleLocations : BundleOk(loc)
    \/ \E msg \in Messages : BundleFail(msg)
    \/ \E comp \in Compositions : SelectOk(comp)
    \/ \E msg \in Messages : SelectFail(msg)
    \/ \E p \in ProgressValues : RenderProgress(p)
    \/ RenderOk
    \/ \E msg \in Messages : RenderFail(msg)

Spec == Init /\ [][Next]_vars

\* the steps of main() itself and the settling of the call it awaits
MainStep ==
    \/ \E argv \in ArgVectors : Start(argv)
    \/ Validate
    \/ Extract
    \/ EnsureBrowserOk
    \/ \E msg \in Messages : EnsureBrowserFail(msg)
    \/ Stage
    \/ \E loc \in BundleLocations : BundleOk(loc)
    \/ \E msg \in Messages : BundleFail(msg)
    \/ \E comp \in Compositions : SelectOk(comp)
    \/ \E msg \in Messages : SelectFail(msg)
    \/ RenderOk
    \/ \E msg \in Messages : RenderFail(msg)

\* synchronous code runs to its next await and every awaited call settles;
\* nothing is assumed about the progress callbacks
LiveSpec == Spec /\ WF_vars(MainStep)

TypeOK ==
    /\ pc \in {"start", "validating", "extracting", "provisioning", "staging",
               "bundling", "selecting", "rendering", "exited"}
    /\ pending \in {"none", "ensureBrowser", "bundle", "selectComposition",
                    "renderMedia"}
    /\ exitCode \in {<<>>, <<0>>, <<1>>}
    /\ tempProjectDir \in StagingDirs \cup {"null"}
    /\ dirs \subseteq StagingDirs
    /\ Len(reported) <= MaxReports

----------------------------------------------------------------------------
(* Vocabulary of the properties *)

\* the collaborator calls of a complete run, in the order main() makes them
Pipeline == <<"validateTsxFile", "extractCompositionConfig", "ensureBrowser",
              "createTempProject", "bundle", "selectComposition",
              "renderMedia">>

Called(fn) == \E i \in 1..Len(calls) : calls[i] = fn

TimesCalled(fn) == Cardinality({i \in 1..Len(calls) : calls[i] = fn})

SettledOk(fn) == \E i \in 1..Len(settled) : settled[i].fn = fn /\ settled[i].ok

Failed(fn) == \E i \in 1..Len(settled) : settled[i].fn = fn /\ ~settled[i].ok

Exited == pc = "exited"

Printed(line) == \E i \in 1..Len(out) : out[i] = line

\* n is the integer nearest to num/den, halves rounded up
IsRoundOf(n, num, den) ==
    /\ 2 * n * den - den <= 2 * num
    /\ 2 * num < 2 * n * den + den

\* the phase of the run, in the vocabulary of the pipeline's state machine:
\* argument parsing belongs to validating, browser provisioning opens the
\* staged part of the run
SpecPhase ==
    CASE pc = "start" -> "validating"
      [] pc = "provisioning" -> "staging"
      [] pc = "exited" -> (IF exitCode = <<ExitSuccess>> THEN "done" ELSE "failed")
      [] OTHER -> pc

PhaseSeq == <<"validating", "extracting", "staging", "bundling", "selecting",
              "rendering", "done">>

Rank(p) == CHOOSE i \in 1..Len(PhaseSeq) : PhaseSeq[i] = p

\* the calls made so far are a prefix of Pipeline, and every call but the
\* last one has settled successfully
CallsInOrder ==
    /\ Len(calls) <= Len(Pipeline)
    /\ \A i \in 1..Len(calls) :
         /\ calls[i] = Pipeline[i]
         /\ i < Len(calls) =>
              /\ Len(settled) >= i
              /\ settled[i].fn = calls[i]
              /\ settled[i].ok

\* a progress report made in the phase of the operation it describes
InPhase(r) ==
    \/ r.label = "Bundling" /\ r.at = "bundling"
    \/ r.label = "Rendering" /\ r.at = "rendering"

----------------------------------------------------------------------------
(* Properties *)

\* C1: in every run in which createTempProject returned a staging directory,
\* once the process has exited the directory has been released exactly once
\* (one call of cleanupTempProject) and no longer exists.
C1_StagingReleased ==
    (Exited /\ tempProjectDir # "null") =>
        /\ TimesCalled("cleanupTempProject") = 1
        /\ tempProjectDir \notin dirs

\* C2: a run exits with status 0 exactly when all seven collaborator calls
\* succeeded, and the failure of any one of them makes it exit with status 1.
C2_ExitStatus ==
    /\ Exited => (exitCode = <<0>> <=>
                    \A i \in 1..Len(Pipeline) : SettledOk(Pipeline[i]))
    /\ (\E i \in 1..Len(settled) : ~settled[i].ok) =>
          (Exited /\ exitCode = <<1>>)

C2_Witness ==
    /\ Exited
    /\ exitCode = <<0>>
    /\ Len(settled) = Len(Pipeline)
    /\ \A i \in 1..Len(settled) : settled[i].ok

\* C3: the phase only ever moves to the next phase of validating, extracting,
\* staging, bundling, selecting, rendering, done, or to failed, and no
\* collaborator is called before the previous one has settled successfully.
C3_PhaseOrder ==
    [][/\ SpecPhase' # SpecPhase =>
            \/ SpecPhase' = "failed"
            \/ /\ SpecPhase # "failed"
               /\ Rank(SpecPhase') = Rank(SpecPhase) + 1
       /\ CallsInOrder']_vars

C3_Witness == SpecPhase = "done" /\ calls = Pipeline

\* C4: when validateTsxFile rejects the input (the file is missing or its
\* extension is not tsx) the run has exited with status 1, validateTsxFile
\* is the only collaborator ever called, and no staging directory exists.
C4_ValidationFailure ==
    /\ Called("validateTsxFile") =>
         (Failed("validateTsxFile") <=>
            (inputPath.name \notin ExistingFiles \/ inputPath.ext # "tsx"))
    /\ Failed("validateTsxFile") =>
         /\ Exited
         /\ exitCode = <<1>>
         /\ calls = <<"validateTsxFile">>
         /\ tempProjectDir = "null"
         /\ dirs = {}

C4_Witness ==
    /\ Failed("validateTsxFile")
    /\ inputPath.ext = "ts"
    /\ Exited

\* C5: when extractCompositionConfig fails the run has printed the
\* extractor's message, has exited with status 1, has called nothing after
\* the extractor, and no staging directory exists.
C5_ExtractionFailure ==
    \A i \in 1..Len(settled) :
        (settled[i].fn = "extractCompositionConfig" /\ ~settled[i].ok) =>
            /\ Printed(Line("error", <<"Failed to extract composition config: ">>
                                        \o settled[i].msg))
            /\ Exited
            /\ exitCode = <<1>>
            /\ calls = <<"validateTsxFile", "extractCompositionConfig">>
            /\ tempProjectDir = "null"
            /\ dirs = {}

C5_Witness ==
    /\ Exited
    /\ \E i \in 1..Len(settled) :
         /\ settled[i].fn = "extractCompositionConfig"
         /\ settled[i].msg = <<"missing field", "fps">>

\* C6: the frame count handed to renderMedia is durationInSeconds * fps
\* rounded to the nearest integer, and it is at least 1.
C6_FrameCount ==
    \A r \in renderCall :
        /\ IsRoundOf(r.composition.durationInFrames,
                     config.durationInSeconds[1] * config.fps,
                     config.durationInSeconds[2])
        /\ r.composition.durationInFrames >= 1

\* C7: renderMedia receives the selected composition with fps, width, height
\* and the derived frame count taken from the descriptor, the output path
\* resolved at the start of the run and the location bundle returned.
C7_RenderArguments ==
    /\ Called("renderMedia") <=> renderCall # {}
    /\ \A r \in renderCall :
         /\ config \in Configs
         /\ r.composition.fps = config.fps
         /\ r.composition.width = config.width
         /\ r.composition.height = config.height
         /\ IsRoundOf(r.composition.durationInFrames,
                      config.durationInSeconds[1] * config.fps,
                      config.durationInSeconds[2])
         /\ r.composition.id = composition.id
         /\ r.composition.defaultProps = composition.defaultProps
         /\ r.outputLocation = outputPath
         /\ outputPath.abs
         /\ \E now \in Timestamps :
              outputPath = IF args.output # Undefined
                           THEN Resolve(args.output)
                           ELSE GenerateOutputPath(inputPath, now)
         /\ SettledOk("bundle")
         /\ r.serveUrl = bundleLocation
         /\ bundleLocation \in BundleLocations

C7_Witness ==
    \E r \in renderCall :
        /\ r.composition.fps # composition.fps
        /\ r.composition.width # composition.width
        /\ r.composition.height # composition.height
        /\ r.composition.durationInFrames # composition.durationInFrames

\* C8: the progress values reported for bundling during the bundling phase,
\* and for rendering during the rendering phase, never decrease and all lie
\* between 0 and 100 percent.
C8_ProgressMonotoneBounded ==
    \A i \in 1..Len(reported) :
        InPhase(reported[i]) =>
            /\ 0 <= reported[i].pct
            /\ reported[i].pct <= 100
            /\ \A j \in (i + 1)..Len(reported) :
                 (InPhase(reported[j]) /\ reported[j].label = reported[i].label)
                     => reported[i].pct <= reported[j].pct

\* C9: when createTempProject fails the run has exited with status 1 and
\* nothing of the staging directory is left on disk.
C9_PartialStagingCleaned ==
    Failed("createTempProject") =>
        /\ Exited
        /\ exitCode = <<1>>
        /\ dirs = {}

\* C10: bundle is only ever called after ensureBrowser has resolved, and
\* never in a run in which ensureBrowser was rejected.
C10_BrowserBeforeBundle ==
    /\ Called("bundle") => SettledOk("ensureBrowser")
    /\ Failed("ensureBrowser") => ~Called("bundle")

C10_Witness == pending = "bundle" /\ SettledOk("ensureBrowser")

\* C11: when the command line names no input file (no positional argument
\* and no --input) the run has printed the usage message and exited with a
\* non-zero status without calling any collaborator.
C11_NoInput ==
    (pc # "start" /\ args.input = Undefined /\ args.positional = <<>>) =>
        /\ Exited
        /\ exitCode # <<>>
        /\ exitCode # <<0>>
        /\ Printed(Line("error", <<"No input file specified">>))
        /\ Printed(Line("log", <<"  Usage:">>))
        /\ calls = <<>>
        /\ settled = <<>>
        /\ dirs = {}

C11_Witness ==
    /\ Exited
    /\ args.input = Undefined
    /\ args.positional = <<>>
    /\ args.verbose
    /\ args.output # Undefined

\* C12: no collaborator is called more than once in a run, after a failure
\* included.
C12_NoRetry ==
    /\ \A i \in 1..Len(Pipeline) : TimesCalled(Pipeline[i]) <= 1
    /\ \A i \in 1..Len(calls) : \E j \in 1..Len(Pipeline) : calls[i] = Pipeline[j]
    /\ (\E i \in 1..Len(settled) : ~settled[i].ok) => Len(settled) = Len(calls)

C12_Witness ==
    /\ Exited
    /\ Failed("bundle")
    /\ TimesCalled("bundle") = 1

\* C13: whenever bundle fails with a message that contains "Module not
\* found" and "Can't resolve 'foo-bar'", the run prints the hint that module
\* foo-bar is not installed in the renderer.
C13_ModuleHint ==
    \A i \in 1..Len(settled) :
        (/\ settled[i].fn = "bundle"
         /\ ~settled[i].ok
         /\ Includes(settled[i].msg, "Module not found")
         /\ Includes(settled[i].msg, "Can't resolve 'foo-bar'")) =>
            Printed(Line("hint", <<"module", "foo-bar">>))

\* the calls made inside the try block of main()
TryCalls == {"ensureBrowser", "createTempProject", "bundle",
             "selectComposition", "renderMedia"}

\* a progress report made after the operation it describes has settled
Late(r) ==
    \/ r.label = "Bundling" /\ r.at # "bundling"
    \/ r.label = "Rendering" /\ r.at # "rendering"

\* C14: for every error caught by the catch block, whatever hint its message
\* matches, the run has printed the original message, has not reported
\* success, and has exited with status 1.
C14_TranslationKeepsOutcome ==
    \A i \in 1..Len(settled) :
        (settled[i].fn \in TryCalls /\ ~settled[i].ok) =>
            /\ Printed(Line("error", <<"Render failed: ">> \o settled[i].msg))
            /\ ~Printed(Line("success", <<"Render complete!">>))
            /\ Exited
            /\ exitCode = <<1>>

C14_Witness ==
    /\ Exited
    /\ \E i \in 1..Len(settled) :
         /\ settled[i].fn = "selectComposition"
         /\ settled[i].msg = <<"ENOENT", "Module not found">>
    /\ Printed(Line("hint", <<"dependency">>))

\* C15: a progress callback, late ones included, only appends to the
\* reports and overwrites the displayed progress with its own value; the
\* phase, the staging directory, the calls and their arguments, and the exit
\* status stay as they are.
C15_ProgressOnlyDisplay ==
    [][Len(reported') > Len(reported) =>
         /\ display' = [label |-> reported'[Len(reported')].label,
                        pct |-> reported'[Len(reported')].pct]
         /\ UNCHANGED <<pc, args, inputPath, outputPath, config,
                        tempProjectDir, dirs, pending, calls, settled,
                        bundleLocation, composition, bundleCall, renderCall,
                        passed, out, exitCode>>]_vars

C15_Witness ==
    /\ Len(reported) = 2
    /\ reported[1].label = "Bundling"
    /\ reported[1].pct = 150
    /\ reported[2].label = "Bundling"
    /\ reported[2].pct = 50
    /\ Late(reported[2])
    /\ display = [label |-> "Bundling", pct |-> 50]

\* C17: the output path is handed to renderMedia and to no other
\* collaborator, and to renderMedia only once selectComposition has
\* resolved: a run that fails before rendering has handed it to nobody.
C17_OutputOnlyToRenderer ==
    /\ \A h \in passed : h.path = outputPath => h.fn = "renderMedia"
    /\ (\E h \in passed : h.fn = "renderMedia") =>
          (SettledOk("selectComposition") /\ pc \in {"rendering", "exited"})
    /\ (Exited /\ ~Called("renderMedia")) =>
          \A h \in passed : h.path # outputPath

C17_Witness ==
    /\ Exited
    /\ Failed("selectComposition")
    /\ args.output # Undefined
    /\ outputPath = Resolve(args.output)
    /\ \E h \in passed : h.fn = "bundle"

\* C18: a stack trace is printed only in a run started with --verbose.
C18_StackOnlyVerbose ==
    (\E i \in 1..Len(out) : out[i].ch = "stack") => args.verbose

C18_Witness ==
    /\ Exited
    /\ args.verbose
    /\ \E i \in 1..Len(settled) :
         /\ ~settled[i].ok
         /\ Printed(Line("stack", settled[i].msg))

\* C19: when every awaited call settles, the run eventually ends with an
\* exit status, whatever succeeds, fails or reports progress on the way.
C19_Terminates == <>(Exited /\ exitCode \in {<<0>>, <<1>>})

C19_Witness ==
    /\ Exited
    /\ exitCode = <<0>>
    /\ Len(reported) >= 2
    /\ Late(reported[Len(reported)])

\* C20: when ensureBrowser is rejected the run has gone through the catch
\* block (the error and its hint are printed), has exited with status 1,
\* has never called createTempProject and has attempted no cleanup, and no
\* staging directory is owned or exists.
C20_ProvisioningFailure ==
    \A i \in 1..Len(settled) :
        (settled[i].fn = "ensureBrowser" /\ ~settled[i].ok) =>
            /\ Printed(Line("error", <<"Render failed: ">> \o settled[i].msg))
            /\ \A k \in 1..Len(Hints(settled[i].msg)) :
                 Printed(Hints(settled[i].msg)[k])
            /\ Exited
            /\ exitCode = <<1>>
            /\ ~Called("createTempProject")
            /\ ~Called("cleanupTempProject")
            /\ tempProjectDir = "null"
            /\ dirs = {}

C20_Witness ==
    /\ Exited
    /\ \E i \in 1..Len(settled) :
         /\ settled[i].fn = "ensureBrowser"
         /\ settled[i].msg = <<"ENOENT">>
    /\ Printed(Line("hint", <<"missing file">>))
    /\ calls = <<"validateTsxFile", "extractCompositionConfig", "ensureBrowser">>

\* the category of a hint line of the catch block: the two wordings of the
\* dependency hint are one category
HintCategory(line) ==
    IF line.msg[1] = "config" THEN "configuration"
    ELSE IF line.msg[1] \in {"module", "dependency"} THEN "dependency"
    ELSE IF line.msg[1] = "missing file" THEN "missing-file"
    ELSE "other"

\* the hint categories the run has printed
HintCategories ==
    {HintCategory(out[k]) : k \in {j \in 1..Len(out) : out[j].ch = "hint"}}

\* the category the precedence of the catch block selects for a message
ExpectedCategories(msg) ==
    IF Includes(msg, "compositionConfig") THEN {"configuration"}
    ELSE IF Includes(msg, "Module not found") THEN {"dependency"}
    ELSE IF Includes(msg, "ENOENT") THEN {"missing-file"}
    ELSE {}

\* C21: for every error caught by the catch block at most one hint category
\* is printed, chosen by precedence: "compositionConfig" gives only the
\* configuration hint, else "Module not found" gives only the dependency
\* hint (with the list of supported libraries), else "ENOENT" gives the
\* missing-file hint, else no hint is printed.
C21_HintPrecedence ==
    \A i \in 1..Len(settled) :
        (settled[i].fn \in TryCalls /\ ~settled[i].ok) =>
            /\ Cardinality(HintCategories) <= 1
            /\ HintCategories = ExpectedCategories(settled[i].msg)
            /\ Printed(Line("log", <<"  Supported libraries:">>))
                 <=> HintCategories = {"dependency"}

C21_Witness ==
    /\ Exited
    /\ \E i \in 1..Len(settled) :
         /\ settled[i].fn = "renderMedia"
         /\ settled[i].msg = <<"ENOENT", "compositionConfig">>
    /\ Printed(Line("hint", <<"config">>))
    /\ ~Printed(Line("hint", <<"missing file">>))

====
